---- MODULE Spec2Model ----
(***************************************************************************)
(* Model of 0x02-redis_basic: exercise.py (class Cache with the decorators *)
(* count_calls and call_history, and replay) and web.py (get_page wrapped  *)
(* by count_and_cache), both talking to the same Redis database            *)
(* (redis.Redis() with its defaults: one server, one database).            *)
(*                                                                         *)
(* Python str values are sequences of code points, Python bytes and Redis  *)
(* strings are sequences of byte values 0..255.  Redis keys are the UTF-8  *)
(* bytes of the Python str the code passes as key.                         *)
(***************************************************************************)
EXTENDS Integers, Sequences, FiniteSets, TLC

VARIABLES
    db,      \* the Redis database: key (bytes) -> [t, v, ttl]
    pc,      \* per caller: the statement it is about to run ("idle" between calls)
    loc,     \* per caller: the locals of the call in progress
    ret,     \* the last call that finished: who called what, and its outcome
    nuuid,   \* how many uuid4() values have been drawn so far
    obs,     \* per caller: what was seen of the call in progress (observation only)
    hist     \* history of the run since the last FLUSHDB (observation only)

vars == <<db, pc, loc, ret, nuuid, obs, hist>>

---------------------------------------------------------------------------
(* Bounds of the model *)

\* store calls begun in one run
MaxStore == 2
\* get_page calls begun in one run
MaxPages == 2
\* get_page calls begun in one run whose calls run one after the other
MaxSeqPages == 3
\* seconds the clock runs on after an entry of the URL cache has expired
MaxAfter == 2

\* web.py line 32: redis_client.setex(f"url:{url}", 10, result)
TTL == 10

Callers == {"c1", "c2"}

---------------------------------------------------------------------------
(* Text: code points, UTF-8, decimal numbers, repr *)

\* "Cache.store": method.__qualname__ of Cache.store
QualName == <<67, 97, 99, 104, 101, 46, 115, 116, 111, 114, 101>>
\* ":inputs" and ":outputs"
InputsSuffix == <<58, 105, 110, 112, 117, 116, 115>>
OutputsSuffix == <<58, 111, 117, 116, 112, 117, 116, 115>>
\* "count:" and "url:"
CountPrefix == <<99, 111, 117, 110, 116, 58>>
UrlPrefix == <<117, 114, 108, 58>>

\* str.encode('utf-8') of one code point (surrogates are not in the model's alphabet)
Utf8Char(c) ==
    IF c < 128 THEN <<c>>
    ELSE IF c < 2048 THEN <<192 + (c \div 64), 128 + (c % 64)>>
    ELSE IF c < 65536
         THEN <<224 + (c \div 4096), 128 + ((c \div 64) % 64), 128 + (c % 64)>>
    ELSE <<240 + (c \div 262144), 128 + ((c \div 4096) % 64),
           128 + ((c \div 64) % 64), 128 + (c % 64)>>

RECURSIVE Utf8Encode(_)
Utf8Encode(s) ==
    IF s = <<>> THEN <<>> ELSE Utf8Char(Head(s)) \o Utf8Encode(Tail(s))

IsCont(b) == b >= 128 /\ b < 192

\* bytes.decode('utf-8') (strict): [ok |-> FALSE] stands for UnicodeDecodeError
RECURSIVE Utf8Decode(_)
Utf8Decode(b) ==
    IF b = <<>> THEN [ok |-> TRUE, s |-> <<>>]
    ELSE LET b1 == b[1]
             n  == IF b1 < 128 THEN 1
                   ELSE IF b1 >= 194 /\ b1 < 224 THEN 2
                   ELSE IF b1 >= 224 /\ b1 < 240 THEN 3
                   ELSE IF b1 >= 240 /\ b1 < 245 THEN 4
                   ELSE 0
         IN IF n = 0 \/ Len(b) < n \/ \E i \in 2..n : ~IsCont(b[i])
            THEN [ok |-> FALSE, s |-> <<>>]
            ELSE LET c == IF n = 1 THEN b1
                          ELSE IF n = 2 THEN (b1 - 192) * 64 + (b[2] - 128)
                          ELSE IF n = 3
                               THEN (b1 - 224) * 4096 + (b[2] - 128) * 64 + (b[3] - 128)
                          ELSE (b1 - 240) * 262144 + (b[2] - 128) * 4096
                               + (b[3] - 128) * 64 + (b[4] - 128)
                     valid == /\ (n = 3 => c >= 2048 /\ ~(c >= 55296 /\ c < 57344))
                              /\ (n = 4 => c >= 65536 /\ c < 1114112)
                     rest == Utf8Decode(SubSeq(b, n + 1, Len(b)))
                 IN IF valid /\ rest.ok
                    THEN [ok |-> TRUE, s |-> <<c>> \o rest.s]
                    ELSE [ok |-> FALSE, s |-> <<>>]

\* decimal digits of a natural number, as ASCII
RECURSIVE Digits(_)
Digits(n) ==
    IF n < 10 THEN <<48 + n>> ELSE Digits(n \div 10) \o <<48 + (n % 10)>>

\* repr(int)
IntRepr(n) == IF n < 0 THEN <<45>> \o Digits(-n) ELSE Digits(n)

\* A float is held as a count of halves (3 is 1.5): repr(float) of k/2
FloatRepr(h) ==
    LET a == IF h < 0 THEN -h ELSE h
    IN (IF h < 0 THEN <<45>> ELSE <<>>)
       \o Digits(a \div 2) \o <<46>> \o (IF a % 2 = 0 THEN <<48>> ELSE <<53>>)

IsDigit(b) == b >= 48 /\ b <= 57

RECURSIVE DigitsValue(_)
DigitsValue(d) ==
    IF d = <<>> THEN 0 ELSE DigitsValue(SubSeq(d, 1, Len(d) - 1)) * 10 + (d[Len(d)] - 48)

\* int(b) of the decimal text b: an optional sign, then digits;
\* [ok |-> FALSE] stands for ValueError
IntParse(b) ==
    LET signed == b # <<>> /\ b[1] \in {43, 45}
        d == IF signed THEN Tail(b) ELSE b
    IN IF d = <<>> \/ \E i \in 1..Len(d) : ~IsDigit(d[i])
       THEN [ok |-> FALSE, n |-> 0]
       ELSE [ok |-> TRUE,
             n |-> IF signed /\ b[1] = 45 THEN -DigitsValue(d) ELSE DigitsValue(d)]

HexDigit(n) == IF n < 10 THEN 48 + n ELSE 87 + n

\* one byte inside repr(bytes): printable ASCII as itself, the rest as \xNN
\* (the quote, the backslash and the control characters are not in the alphabet)
ReprByte(b) ==
    IF b >= 32 /\ b < 127 THEN <<b>>
    ELSE <<92, 120, HexDigit(b \div 16), HexDigit(b % 16)>>

RECURSIVE ReprBytesBody(_)
ReprBytesBody(b) ==
    IF b = <<>> THEN <<>> ELSE ReprByte(Head(b)) \o ReprBytesBody(Tail(b))

---------------------------------------------------------------------------
(* Python values: [ty, v] with v a sequence of integers *)

PyNone == [ty |-> "None", v |-> <<>>]
PyStr(s) == [ty |-> "str", v |-> s]
PyBytes(b) == [ty |-> "bytes", v |-> b]
PyInt(n) == [ty |-> "int", v |-> <<n>>]
PyFloat(h) == [ty |-> "float", v |-> <<h>>]
\* an exception that left the call
Raised == [ty |-> "raise", v |-> <<>>]

\* repr(x) as a str; printable letters are kept as they are inside quotes
Repr(x) ==
    CASE x.ty = "str" -> <<39>> \o x.v \o <<39>>
      [] x.ty = "bytes" -> <<98, 39>> \o ReprBytesBody(x.v) \o <<39>>
      [] x.ty = "int" -> IntRepr(x.v[1])
      [] x.ty = "float" -> FloatRepr(x.v[1])
      [] OTHER -> <<78, 111, 110, 101>>

\* str(args) for the positional arguments of a call: a tuple of zero or one value
StrArgs(args) ==
    IF args = <<>> THEN <<40, 41>> ELSE <<40>> \o Repr(args[1]) \o <<44, 41>>

\* redis-py's encoding of a value sent to the server: bytes as they are,
\* int and float through repr, str through UTF-8
Encode(x) ==
    CASE x.ty = "bytes" -> x.v
      [] x.ty = "int" -> IntRepr(x.v[1])
      [] x.ty = "float" -> FloatRepr(x.v[1])
      [] OTHER -> Utf8Encode(x.v)

---------------------------------------------------------------------------
(* The Redis server, as far as the code uses it *)

NoExpiry == 0 - 1
EmptyDb == [k \in {} |-> k]

\* ttl is the number of seconds the key has left, as TTL key reports it
StringEntry(val, ttl) == [t |-> "string", v |-> val, ttl |-> ttl]
ListEntry(items) == [t |-> "list", v |-> items, ttl |-> NoExpiry]

Put(d, k, e) == [kk \in (DOMAIN d) \cup {k} |-> IF kk = k THEN e ELSE d[kk]]

\* SET key value: replaces whatever the key held, and drops its expiry
RSet(d, k, val) == Put(d, k, StringEntry(val, NoExpiry))

\* not the code: a write that forgets the expiry
RSetexForever(d, k, ttl, val) == Put(d, k, StringEntry(val, NoExpiry))
\* SETEX key seconds value
RSetex(d, k, ttl, val) == Put(d, k, StringEntry(val, ttl))

\* GET key: nil for a missing key, WRONGTYPE for a list
RGet(d, k) ==
    IF k \notin DOMAIN d THEN [err |-> FALSE, nil |-> TRUE, v |-> <<>>]
    ELSE IF d[k].t # "string" THEN [err |-> TRUE, nil |-> FALSE, v |-> <<>>]
    ELSE [err |-> FALSE, nil |-> FALSE, v |-> d[k].v]

\* INCR key can be served: the key is missing or holds decimal text
RIncrOk(d, k) ==
    IF k \notin DOMAIN d THEN TRUE
    ELSE IF d[k].t # "string" THEN FALSE
    ELSE IntParse(d[k].v).ok

\* not the code: an increment that writes 1 whatever the key held
RIncrLost(d, k) == Put(d, k, StringEntry(IntRepr(1), NoExpiry))

\* INCR key: a missing key counts as 0; an expiry is kept
RIncr(d, k) ==
    IF k \notin DOMAIN d THEN Put(d, k, StringEntry(IntRepr(1), NoExpiry))
    ELSE Put(d, k, StringEntry(IntRepr(IntParse(d[k].v).n + 1), d[k].ttl))

\* not the code: an append done as a read and a write of the whole list, by a
\* client that read the list before the others appended
RPushLosesOthers(d, k, item) == Put(d, k, ListEntry(<<item>>))

RPushOk(d, k) == IF k \notin DOMAIN d THEN TRUE ELSE d[k].t = "list"

\* RPUSH key value
RPush(d, k, item) ==
    IF k \notin DOMAIN d THEN Put(d, k, ListEntry(<<item>>))
    ELSE Put(d, k, ListEntry(Append(d[k].v, item)))

\* LRANGE key 0 -1
RLrange(d, k) == IF k \in DOMAIN d /\ d[k].t = "list" THEN d[k].v ELSE <<>>

\* not the code: a clear that spares the lists
RFlushdbKeepsLists(d) == [k \in {kk \in DOMAIN d : d[kk].t = "list"} |-> d[k]]

\* FLUSHDB
RFlushdb(d) == EmptyDb

\* a second passes: a key with one second left is dropped, the others with an
\* expiry have one second less
RSecond(d) ==
    [k \in {kk \in DOMAIN d : d[kk].ttl # 1} |->
        IF d[k].ttl = NoExpiry THEN d[k] ELSE [d[k] EXCEPT !.ttl = @ - 1]]

---------------------------------------------------------------------------
(* exercise.py *)

\* the values callers store: 'h\xe9' (text), b'\xff', -12, 1.5
Values == {PyStr(<<104, 233>>), PyBytes(<<255>>), PyInt(0 - 12), PyFloat(3)}

\* the calls callers make: store(v) binds args = (v,), store(data=v) binds args = ()
StoreCalls ==
    {[data |-> v, args |-> <<v>>] : v \in Values}
    \cup {[data |-> PyInt(7), args |-> <<>>]}

\* not the code: a generator of keys that gives the same key every time
UuidStrRepeats(n) == <<48, 45, 48>>
\* str(uuid.uuid4()): the n-th identifier drawn, written in hex with a dash
\* (a fresh identifier on every call; 128 bits cut down to 8)
UuidStr(n) == <<HexDigit((n \div 16) % 16), 45, HexDigit(n % 16)>>

\* a key no store call returns
StrangerKey == <<110, 111>>

CounterKey == Utf8Encode(QualName)
\* not the code: the inputs pushed to the list of the outputs
InputKeyIsOutputKey == Utf8Encode(QualName \o OutputsSuffix)
InputKey == Utf8Encode(QualName \o InputsSuffix)
\* not the code: the outputs pushed to the list of the inputs
OutputKeyIsInputKey == Utf8Encode(QualName \o InputsSuffix)
OutputKey == Utf8Encode(QualName \o OutputsSuffix)

\* not the code: the decorators stacked the other way: @count_calls over @call_history
StorePipelineCountOutside == <<"incr", "push_in", "set", "push_out">>

\* not the code: a call_history that would log the inputs only
StorePipelineNoOutput == <<"push_in", "incr", "set">>

\* not the code: a count_calls that would count after the method has returned
StorePipelineCountAfter == <<"push_in", "set", "incr", "push_out">>

\* @call_history over @count_calls over store: the statements of one call that
\* touch the server, in the order the wrappers run them
StorePipeline == <<"push_in", "incr", "set", "push_out">>

\* the statement after statement s of a call ("idle" after the last)
StoreAfter(s) ==
    LET i == CHOOSE j \in 1..Len(StorePipeline) : StorePipeline[j] = s
    IN IF i = Len(StorePipeline) THEN "idle" ELSE StorePipeline[i + 1]

StorePcs == {StorePipeline[i] : i \in 1..Len(StorePipeline)}

NoLoc == [data |-> PyNone, args |-> <<>>, key |-> <<>>, url |-> <<>>, result |-> <<>>,
          inputs |-> <<>>, outputs |-> <<>>]
NoRet == [p |-> "", op |-> "none", arg |-> <<>>, found |-> FALSE, out |-> PyNone]

InStore(p) == pc[p] \in StorePcs
InPage(p) == pc[p] \in {"count", "lookup", "fetch", "setex"}

\* a store call leaves by an exception
StoreRaise(p) ==
    /\ pc' = [pc EXCEPT ![p] = "idle"]
    /\ loc' = [loc EXCEPT ![p] = NoLoc]
    /\ ret' = [p |-> p, op |-> "store", arg |-> <<>>, found |-> FALSE, out |-> Raised]

\* a statement of a store call is done: go on, or return the key after the last
StoreAdvance(p, s, l) ==
    /\ pc' = [pc EXCEPT ![p] = StoreAfter(s)]
    /\ IF StoreAfter(s) = "idle"
       THEN /\ loc' = [loc EXCEPT ![p] = NoLoc]
            /\ ret' = [p |-> p, op |-> "store", arg |-> <<>>, found |-> FALSE,
                       out |-> PyStr(l.key)]
       ELSE /\ loc' = [loc EXCEPT ![p] = l]
            /\ ret' = ret

\* history after a statement of p's store call, ok or not
StoreHist(p, s, ok, l) ==
    [hist EXCEPT
        !.failed = @ \/ ~ok,
        !.stores = IF ok /\ StoreAfter(s) = "idle"
                   THEN Append(@, [args |-> l.args, data |-> l.data, key |-> l.key])
                   ELSE @]

\* cache.store(v) or cache.store(data=v) is called: wrapper(self, *args, **kwargs)
StoreCall(p) ==
    /\ pc[p] = "idle"
    /\ hist.nstore < MaxStore
    /\ \E c \in StoreCalls :
          loc' = [loc EXCEPT ![p] = [NoLoc EXCEPT !.data = c.data, !.args = c.args]]
    /\ pc' = [pc EXCEPT ![p] = StorePipeline[1]]
    /\ hist' = [hist EXCEPT !.nstore = @ + 1,
                            !.overlap = @ \/ \E q \in Callers : InStore(q)]
    /\ UNCHANGED <<db, ret, nuuid, obs>>

\* call_history: self._redis.rpush(input_key, str(args))
HistoryPushInput(p) ==
    /\ pc[p] = "push_in"
    /\ \E ok \in BOOLEAN :
          /\ ok => RPushOk(db, InputKey)
          /\ db' = IF ok THEN RPush(db, InputKey, Utf8Encode(StrArgs(loc[p].args))) ELSE db
          /\ IF ok THEN StoreAdvance(p, "push_in", loc[p]) ELSE StoreRaise(p)
          /\ hist' = StoreHist(p, "push_in", ok, loc[p])
    /\ UNCHANGED <<nuuid, obs>>

\* not the code: a count_calls that would catch the failure of the increment
\* and call the method all the same
CountIncrBestEffort(p) ==
    /\ pc[p] = "incr"
    /\ \E ok \in BOOLEAN :
          /\ ok => RIncrOk(db, CounterKey)
          /\ db' = IF ok THEN RIncr(db, CounterKey) ELSE db
          /\ StoreAdvance(p, "incr", loc[p])
          /\ hist' = hist
    /\ UNCHANGED <<nuuid, obs>>

\* count_calls: self._redis.incr(method.__qualname__)
CountIncr(p) ==
    /\ pc[p] = "incr"
    /\ \E ok \in BOOLEAN :
          /\ ok => RIncrOk(db, CounterKey)
          /\ db' = IF ok THEN RIncr(db, CounterKey) ELSE db
          /\ IF ok THEN StoreAdvance(p, "incr", loc[p]) ELSE StoreRaise(p)
          /\ hist' = StoreHist(p, "incr", ok, loc[p])
    /\ UNCHANGED <<nuuid, obs>>

\* store: key = str(uuid.uuid4()); self._redis.set(key, data); return key
StoreSet(p) ==
    /\ pc[p] = "set"
    /\ nuuid' = nuuid + 1
    /\ \E ok \in BOOLEAN :
          LET l == [loc[p] EXCEPT !.key = UuidStr(nuuid + 1)]
          IN /\ db' = IF ok THEN RSet(db, Utf8Encode(l.key), Encode(l.data)) ELSE db
             /\ IF ok THEN StoreAdvance(p, "set", l) ELSE StoreRaise(p)
             /\ hist' = StoreHist(p, "set", ok, l)
    /\ UNCHANGED obs

\* call_history: self._redis.rpush(output_key, str(result)); return result
HistoryPushOutput(p) ==
    /\ pc[p] = "push_out"
    /\ \E ok \in BOOLEAN :
          /\ ok => RPushOk(db, OutputKey)
          /\ db' = IF ok THEN RPush(db, OutputKey, Utf8Encode(loc[p].key)) ELSE db
          /\ IF ok THEN StoreAdvance(p, "push_out", loc[p]) ELSE StoreRaise(p)
          /\ hist' = StoreHist(p, "push_out", ok, loc[p])
    /\ UNCHANGED <<nuuid, obs>>

\* not the code: get_int made with the converter of get_str
ConvertIntDecodes(fn, raw) ==
    CASE fn \in {"get_str", "get_int"} ->
            IF Utf8Decode(raw).ok THEN PyStr(Utf8Decode(raw).s) ELSE Raised
      [] OTHER -> PyBytes(raw)

\* the converters: none, lambda d: d.decode('utf-8'), int
Convert(fn, raw) ==
    CASE fn = "get_str" ->
            IF Utf8Decode(raw).ok THEN PyStr(Utf8Decode(raw).s) ELSE Raised
      [] fn = "get_int" ->
            IF IntParse(raw).ok THEN PyInt(IntParse(raw).n) ELSE Raised
      [] OTHER -> PyBytes(raw)

\* not the code: get without "if value is None": the converter is handed None
GetResultConvertsNone(d, key, fn) ==
    LET r == RGet(d, Utf8Encode(key))
    IN IF r.err THEN Raised
       ELSE IF r.nil THEN (IF fn = "get" THEN PyNone ELSE Raised)
       ELSE Convert(fn, r.v)

\* Cache.get: value = self._redis.get(key); None if value is None;
\* fn(value) if fn else value
GetResult(d, key, fn) ==
    LET r == RGet(d, Utf8Encode(key))
    IN IF r.err THEN Raised
       ELSE IF r.nil THEN PyNone
       ELSE Convert(fn, r.v)

\* the keys callers ask for: every key a store call may have returned, a key
\* none returned, and the name of the call counter
AskedKeys == {UuidStr(i) : i \in 1..nuuid} \cup {StrangerKey, QualName}

\* cache.get(key), cache.get_str(key), cache.get_int(key) by a caller that is
\* not inside another call; one GET on the server, so the call is one step.
\* found records whether the server held the key (observation only; for the
\* constructor it records whether the server held anything)
Get(p) ==
    /\ pc[p] = "idle"
    /\ \E key \in AskedKeys, fn \in {"get", "get_str", "get_int"} :
          ret' = [p |-> p, op |-> fn, arg |-> key,
                  found |-> Utf8Encode(key) \in DOMAIN db,
                  out |-> GetResult(db, key, fn)]
    /\ UNCHANGED <<db, pc, loc, nuuid, obs, hist>>

---------------------------------------------------------------------------
(* exercise.py, replay *)

\* not the code: a report that takes every counter for 0
CountOrZeroIgnoresCount(r) == [ok |-> TRUE, n |-> 0]
\* int(count or 0): None and b'' count as 0; text that is no number raises
CountOrZero(r) ==
    IF r.nil \/ r.v = <<>> THEN [ok |-> TRUE, n |-> 0] ELSE IntParse(r.v)

\* f"{qualname} was called {n} times:"
ReplayHeader(n) ==
    QualName \o <<32, 119, 97, 115, 32, 99, 97, 108, 108, 101, 100, 32>>
             \o IntRepr(n) \o <<32, 116, 105, 109, 101, 115, 58>>

\* f"{qualname}(*{inp.decode('utf-8')}) -> {out.decode('utf-8')}"
ReplayLine(inp, out) ==
    [ok |-> Utf8Decode(inp).ok /\ Utf8Decode(out).ok,
     s |-> QualName \o <<40, 42>> \o Utf8Decode(inp).s
                    \o <<41, 32, 45, 62, 32>> \o Utf8Decode(out).s]

\* zip(inputs, outputs) stops at the end of the shorter list
ZipLen(inputs, outputs) ==
    IF Len(inputs) < Len(outputs) THEN Len(inputs) ELSE Len(outputs)

\* what replay has printed when it ends: the header, then one line per pair up
\* to the first that cannot be decoded; raise tells whether it ended there
ReplayPrinted(inputs, outputs, n) ==
    LET m == ZipLen(inputs, outputs)
        bad == {i \in 1..m : ~ReplayLine(inputs[i], outputs[i]).ok}
        last == IF bad = {} THEN m
                ELSE (CHOOSE i \in bad : \A j \in bad : i <= j) - 1
    IN [ty |-> IF bad = {} THEN "printed" ELSE "raise",
        v |-> <<ReplayHeader(n)>>
              \o [i \in 1..last |-> ReplayLine(inputs[i], outputs[i]).s]]

InReplay(p) == pc[p] \in {"lrange_in", "lrange_out", "get_count"}

\* replay ends, by a return or by an exception; out.v holds the lines printed
ReplayReturn(p, out) ==
    /\ pc' = [pc EXCEPT ![p] = "idle"]
    /\ loc' = [loc EXCEPT ![p] = NoLoc]
    /\ ret' = [p |-> p, op |-> "replay", arg |-> <<>>, found |-> FALSE, out |-> out]

\* replay(cache.store) is called: redis_instance = redis.Redis()
ReplayCall(p) ==
    /\ pc[p] = "idle"
    /\ pc' = [pc EXCEPT ![p] = "lrange_in"]
    /\ UNCHANGED <<db, loc, ret, nuuid, obs, hist>>

\* inputs = redis_instance.lrange(f"{qualname}:inputs", 0, -1)
ReplayInputs(p) ==
    /\ pc[p] = "lrange_in"
    /\ \E ok \in BOOLEAN :
          IF ok /\ RPushOk(db, InputKey)
          THEN /\ pc' = [pc EXCEPT ![p] = "lrange_out"]
               /\ loc' = [loc EXCEPT ![p].inputs = RLrange(db, InputKey)]
               /\ ret' = ret
          ELSE ReplayReturn(p, Raised)
    /\ UNCHANGED <<db, nuuid, obs, hist>>

\* outputs = redis_instance.lrange(f"{qualname}:outputs", 0, -1)
ReplayOutputs(p) ==
    /\ pc[p] = "lrange_out"
    /\ \E ok \in BOOLEAN :
          IF ok /\ RPushOk(db, OutputKey)
          THEN /\ pc' = [pc EXCEPT ![p] = "get_count"]
               /\ loc' = [loc EXCEPT ![p].outputs = RLrange(db, OutputKey)]
               /\ ret' = ret
          ELSE ReplayReturn(p, Raised)
    /\ UNCHANGED <<db, nuuid, obs, hist>>

\* count = redis_instance.get(qualname); the prints
ReplayCount(p) ==
    /\ pc[p] = "get_count"
    /\ \E ok \in BOOLEAN :
          LET r == RGet(db, CounterKey)
          IN IF ~ok \/ r.err THEN ReplayReturn(p, Raised)
             ELSE IF ~CountOrZero(r).ok THEN ReplayReturn(p, Raised)
             ELSE ReplayReturn(p, ReplayPrinted(loc[p].inputs, loc[p].outputs,
                                                CountOrZero(r).n))
    /\ UNCHANGED <<db, nuuid, obs, hist>>

---------------------------------------------------------------------------
(* web.py *)

\* the URLs callers ask for: "http://x" and "http://y"
Urls == {<<104, 116, 116, 112, 58, 47, 47, 120>>,
         <<104, 116, 116, 112, 58, 47, 47, 121>>}

\* what requests.get(url).text may be: '', 'a', 'h\xe9'
Pages == {<<>>, <<97>>, <<104, 233>>}

\* not the code: a counter key that would leave the URL out: one counter for all URLs
CountKeyShared(url) == Utf8Encode(CountPrefix)
\* f"count:{url}" and f"url:{url}"
CountKey(url) == Utf8Encode(CountPrefix \o url)
CacheKey(url) == Utf8Encode(UrlPrefix \o url)

\* not the code: a test "cached is not None"
TruthyIsNotNone(r) == ~r.nil
\* the truth value of the reply of GET: None and b'' are false
Truthy(r) == ~r.nil /\ r.v # <<>>

\* int(redis_client.get(key) or 0): a counter as a reader sees it
CounterValue(d, k) ==
    IF k \in DOMAIN d THEN IntParse(d[k].v).n ELSE 0

\* what the server holds under k, for comparing two moments
EntryOf(d, k) ==
    IF k \in DOMAIN d THEN [has |-> TRUE, v |-> d[k].v, ttl |-> d[k].ttl]
    ELSE [has |-> FALSE, v |-> <<>>, ttl |-> NoExpiry]

\* what an entry seen a second ago is now, if nobody touched it
Aged(e) ==
    IF ~e.has \/ e.ttl = NoExpiry THEN e
    ELSE IF e.ttl = 1 THEN [has |-> FALSE, v |-> <<>>, ttl |-> NoExpiry]
    ELSE [e EXCEPT !.ttl = @ - 1]

NoWrite == 0 - 1
\* e0: the entry of the URL when the call began, aged by the seconds since;
\* n0, n1: the URL's counter when the call began and after the call's INCR;
\* win: where the call's lookup fell, see Window;
\* clean: no other get_page call and no FLUSHDB during the call
NoObs == [e0 |-> EntryOf(EmptyDb, <<>>), n0 |-> 0, n1 |-> 0, win |-> "none",
          clean |-> TRUE]

\* "fresh": the entry of url was written less than TTL seconds ago;
\* "expired": it was written TTL seconds ago or more;
\* "none": it was not written since the last FLUSHDB
Window(url) ==
    IF hist.age[url] = NoWrite THEN "none"
    ELSE IF hist.age[url] < TTL THEN "fresh"
    ELSE "expired"

\* p's get_page call is over, leaving the database d: why it ended, what it gave
PageDone(p, why, out, o, d) ==
    [url |-> loc[p].url, why |-> why, out |-> out, win |-> o.win,
     n0 |-> o.n0, n1 |-> o.n1, clean |-> o.clean,
     kept |-> EntryOf(d, CacheKey(loc[p].url)) = o.e0]

\* the last two get_page calls that finished, as long as each ran alone and
\* with no FLUSHDB in it; any other call wipes the memory
Remember(pages, r) ==
    IF ~r.clean THEN <<>>
    ELSE IF Len(pages) < 2 THEN Append(pages, r)
    ELSE <<pages[2], r>>

\* return or raise from a statement that leaves the database as it is
PageReturn(p, why, out, o) ==
    /\ pc' = [pc EXCEPT ![p] = "idle"]
    /\ loc' = [loc EXCEPT ![p] = NoLoc]
    /\ obs' = [obs EXCEPT ![p] = NoObs]
    /\ ret' = [p |-> p, op |-> "get_page", arg |-> loc[p].url, found |-> FALSE, out |-> out]
    /\ hist' = [hist EXCEPT !.pages = Remember(@, PageDone(p, why, out, o, db))]

\* get_page(url) is called
PageCall(p) ==
    /\ pc[p] = "idle"
    /\ \/ hist.npage < MaxPages
       \/ /\ hist.npage < MaxSeqPages
          /\ Len(hist.pages) = 2
          /\ \A q \in Callers : ~InPage(q)
    /\ \E url \in Urls :
          /\ loc' = [loc EXCEPT ![p] = [NoLoc EXCEPT !.url = url]]
          /\ obs' = [q \in Callers |->
                       IF q = p
                       THEN [NoObs EXCEPT !.e0 = EntryOf(db, CacheKey(url)),
                                          !.n0 = CounterValue(db, CountKey(url)),
                                          !.clean = ~\E r \in Callers : InPage(r)]
                       ELSE IF InPage(q) THEN [obs[q] EXCEPT !.clean = FALSE]
                       ELSE obs[q]]
    /\ pc' = [pc EXCEPT ![p] = "count"]
    /\ hist' = [hist EXCEPT !.npage = @ + 1]
    /\ UNCHANGED <<db, ret, nuuid>>

\* redis_client.incr(f"count:{url}")
PageCount(p) ==
    /\ pc[p] = "count"
    /\ \E ok \in BOOLEAN :
          LET url == loc[p].url
              d == IF ok THEN RIncr(db, CountKey(url)) ELSE db
              o == [obs[p] EXCEPT !.n1 = CounterValue(d, CountKey(url))]
          IN /\ ok => RIncrOk(db, CountKey(url))
             /\ db' = d
             /\ IF ok
                THEN /\ pc' = [pc EXCEPT ![p] = "lookup"]
                     /\ obs' = [obs EXCEPT ![p] = o]
                     /\ hist' = [hist EXCEPT !.pinv[url] = @ + 1]
                     /\ UNCHANGED <<loc, ret>>
                ELSE /\ pc' = [pc EXCEPT ![p] = "idle"]
                     /\ loc' = [loc EXCEPT ![p] = NoLoc]
                     /\ obs' = [obs EXCEPT ![p] = NoObs]
                     /\ ret' = [p |-> p, op |-> "get_page", arg |-> url,
                                found |-> FALSE, out |-> Raised]
                     /\ hist' = [hist EXCEPT
                                   !.pinv[url] = @ + 1,
                                   !.prefused[url] = @ + 1,
                                   !.pages = Remember(@, PageDone(p, "incr", Raised, o, db))]
    /\ UNCHANGED nuuid

\* not the code: a hit that would give the entry its whole TTL again
PageLookupTouches(p) ==
    /\ pc[p] = "lookup"
    /\ \E ok \in BOOLEAN :
          LET url == loc[p].url
              r == RGet(db, CacheKey(url))
              o == [obs[p] EXCEPT !.win = Window(url)]
              hit == ok /\ ~r.err /\ Truthy(r) /\ Utf8Decode(r.v).ok
              d == IF hit THEN RSetex(db, CacheKey(url), TTL, r.v) ELSE db
              out == IF hit THEN PyStr(Utf8Decode(r.v).s) ELSE Raised
          IN /\ db' = d
             /\ IF ok /\ ~r.err /\ ~Truthy(r)
                THEN /\ pc' = [pc EXCEPT ![p] = "fetch"]
                     /\ obs' = [obs EXCEPT ![p] = o]
                     /\ UNCHANGED <<loc, ret, hist>>
                ELSE /\ pc' = [pc EXCEPT ![p] = "idle"]
                     /\ loc' = [loc EXCEPT ![p] = NoLoc]
                     /\ obs' = [obs EXCEPT ![p] = NoObs]
                     /\ ret' = [p |-> p, op |-> "get_page", arg |-> url,
                                found |-> FALSE, out |-> out]
                     /\ hist' = [hist EXCEPT !.pages = Remember(@,
                                     PageDone(p, IF hit THEN "hit" ELSE "get", out, o, d))]
    /\ UNCHANGED nuuid

\* cached = redis_client.get(f"url:{url}"); if cached: return cached.decode('utf-8')
PageLookup(p) ==
    /\ pc[p] = "lookup"
    /\ \E ok \in BOOLEAN :
          LET url == loc[p].url
              r == RGet(db, CacheKey(url))
              o == [obs[p] EXCEPT !.win = Window(url)]
          IN IF ~ok \/ r.err THEN PageReturn(p, "get", Raised, o)
             ELSE IF Truthy(r)
             THEN IF Utf8Decode(r.v).ok
                  THEN PageReturn(p, "hit", PyStr(Utf8Decode(r.v).s), o)
                  ELSE PageReturn(p, "decode", Raised, o)
             ELSE /\ pc' = [pc EXCEPT ![p] = "fetch"]
                  /\ obs' = [obs EXCEPT ![p] = o]
                  /\ UNCHANGED <<loc, ret, hist>>
    /\ UNCHANGED <<db, nuuid>>

\* not the code: a wrapper that would catch the exception of method(url), cache the empty
\* page and return it
FetchFailureCached(p, o) ==
    LET d == RSetex(db, CacheKey(loc[p].url), TTL, <<>>)
    IN /\ db' = d
       /\ pc' = [pc EXCEPT ![p] = "idle"]
       /\ loc' = [loc EXCEPT ![p] = NoLoc]
       /\ obs' = [obs EXCEPT ![p] = NoObs]
       /\ ret' = [p |-> p, op |-> "get_page", arg |-> loc[p].url, found |-> FALSE,
                  out |-> PyStr(<<>>)]
       /\ hist' = [hist EXCEPT
                     !.age[loc[p].url] = 0,
                     !.pages = Remember(@, PageDone(p, "fetch", PyStr(<<>>), o, d))]
\* method(url) raises: nothing catches it in the wrapper, the call ends there
FetchFailure(p, o) ==
    /\ PageReturn(p, "fetch", Raised, o)
    /\ UNCHANGED db

\* result = method(url): response = requests.get(url); return response.text
PageFetch(p) ==
    /\ pc[p] = "fetch"
    /\ \E ok \in BOOLEAN, page \in Pages :
          LET o == obs[p]
          IN IF ok
             THEN /\ pc' = [pc EXCEPT ![p] = "setex"]
                  /\ loc' = [loc EXCEPT ![p].result = page]
                  /\ obs' = [obs EXCEPT ![p] = o]
                  /\ UNCHANGED <<db, ret, hist>>
             ELSE FetchFailure(p, o)
    /\ UNCHANGED nuuid

\* redis_client.setex(f"url:{url}", 10, result); return result
PageSetex(p) ==
    /\ pc[p] = "setex"
    /\ \E ok \in BOOLEAN :
          LET url == loc[p].url
              d == IF ok
                   THEN RSetex(db, CacheKey(url), TTL, Encode(PyStr(loc[p].result)))
                   ELSE db
          IN /\ db' = d
             /\ pc' = [pc EXCEPT ![p] = "idle"]
             /\ loc' = [loc EXCEPT ![p] = NoLoc]
             /\ obs' = [obs EXCEPT ![p] = NoObs]
             /\ ret' = [p |-> p, op |-> "get_page", arg |-> url, found |-> FALSE,
                        out |-> IF ok THEN PyStr(loc[p].result) ELSE Raised]
             /\ hist' = [hist EXCEPT
                           !.age[url] = IF ok THEN 0 ELSE @,
                           !.pages = Remember(@,
                               PageDone(p, IF ok THEN "miss" ELSE "setex",
                                        IF ok THEN PyStr(loc[p].result) ELSE Raised,
                                        obs[p], d))]
    /\ UNCHANGED nuuid

\* a second passes on the server: the keys whose time has come are gone
Tick ==
    /\ \A u \in Urls : hist.age[u] < TTL + MaxAfter
    /\ db' = RSecond(db)
    /\ obs' = [q \in Callers |->
                 IF InPage(q) THEN [obs[q] EXCEPT !.e0 = Aged(@)] ELSE obs[q]]
    /\ hist' = [hist EXCEPT !.age = [u \in Urls |->
                                        IF @[u] = NoWrite THEN NoWrite ELSE @[u] + 1]]
    /\ UNCHANGED <<pc, loc, ret, nuuid>>

---------------------------------------------------------------------------
(* The run *)

\* Cache.__init__: self._redis = redis.Redis(); self._redis.flushdb()
NewCache ==
    /\ db' = RFlushdb(db)
    /\ ret' = [p |-> "", op |-> "Cache", arg |-> <<>>, found |-> DOMAIN db # {},
               out |-> PyNone]
    /\ obs' = [q \in Callers |->
                 IF InPage(q) THEN [obs[q] EXCEPT !.clean = FALSE] ELSE obs[q]]
    /\ hist' = [hist EXCEPT !.stores = <<>>,
                            !.failed = FALSE,
                            !.overlap = \E q \in Callers : InStore(q),
                            !.torn = \E q \in Callers : InStore(q),
                            !.pinv = [u \in Urls |-> 0],
                            !.prefused = [u \in Urls |-> 0],
                            !.age = [u \in Urls |-> NoWrite],
                            !.pages = <<>>]
    /\ UNCHANGED <<pc, loc, nuuid>>


Init ==
    /\ db = EmptyDb
    /\ pc = [p \in Callers |-> "idle"]
    /\ loc = [p \in Callers |-> NoLoc]
    /\ ret = NoRet
    /\ nuuid = 0
    /\ obs = [p \in Callers |-> NoObs]
    /\ hist = [nstore |-> 0, stores |-> <<>>, failed |-> FALSE,
               overlap |-> FALSE, torn |-> FALSE,
               npage |-> 0, pinv |-> [u \in Urls |-> 0],
               prefused |-> [u \in Urls |-> 0],
               age |-> [u \in Urls |-> NoWrite], pages |-> <<>>]

\* exercise.py, the store calls of concurrent callers and the constructor
StoreNext ==
    \/ \E p \in Callers : StoreCall(p)
    \/ \E p \in Callers : HistoryPushInput(p)
    \/ \E p \in Callers : CountIncr(p)
    \/ \E p \in Callers : StoreSet(p)
    \/ \E p \in Callers : HistoryPushOutput(p)
    \/ NewCache

SpecStore == Init /\ [][StoreNext]_vars

\* exercise.py, the store calls and the reads of one caller, and the constructor
GetNext ==
    \/ StoreCall("c1")
    \/ HistoryPushInput("c1")
    \/ CountIncr("c1")
    \/ StoreSet("c1")
    \/ HistoryPushOutput("c1")
    \/ \E p \in Callers : Get(p)
    \/ NewCache

SpecGet == Init /\ [][GetNext]_vars

\* exercise.py, the store calls of one caller, replay by another, and the
\* constructor
ReplayNext ==
    \/ StoreCall("c1")
    \/ HistoryPushInput("c1")
    \/ CountIncr("c1")
    \/ StoreSet("c1")
    \/ HistoryPushOutput("c1")
    \/ ReplayCall("c2")
    \/ ReplayInputs("c2")
    \/ ReplayOutputs("c2")
    \/ ReplayCount("c2")
    \/ NewCache

SpecReplay == Init /\ [][ReplayNext]_vars

\* web.py, the get_page calls of concurrent callers, the clock, and a Cache
\* constructed by a program on the same server
WebNext ==
    \/ \E p \in Callers : PageCall(p)
    \/ \E p \in Callers : PageCount(p)
    \/ \E p \in Callers : PageLookup(p)
    \/ \E p \in Callers : PageFetch(p)
    \/ \E p \in Callers : PageSetex(p)
    \/ Tick
    \/ NewCache

SpecWeb == Init /\ [][WebNext]_vars

Next == StoreNext \/ GetNext \/ ReplayNext \/ WebNext

Spec == Init /\ [][Next]_vars

---------------------------------------------------------------------------
(* What the claims speak of *)

Inputs == RLrange(db, InputKey)
Outputs == RLrange(db, OutputKey)
Counter == CounterValue(db, CounterKey)

\* no store call is in progress
StoreIdle == \A p \in Callers : ~InStore(p)

\* since the last FLUSHDB no store call raised, and none was cut by the FLUSHDB
StoreClean == ~hist.failed /\ ~hist.torn

\* the store calls begun since the last FLUSHDB, when StoreClean
StoreBegun == Len(hist.stores) + Cardinality({p \in Callers : InStore(p)})

\* the keys of store calls that the server holds
StoredKeys == {i \in 1..nuuid : Utf8Encode(UuidStr(i)) \in DOMAIN db}

\* the effects of the latest store call that a reader of the server sees
SeesInput == Len(Inputs) = StoreBegun
SeesCount == Counter = StoreBegun
SeesValue == Cardinality(StoredKeys) = StoreBegun
SeesOutput == Len(Outputs) = StoreBegun

---------------------------------------------------------------------------
(* C1 *)

\* C1: after n store calls with no failure and no new Cache in between, the
\* counter under "Cache.store" reads n; a call in progress has raised it by
\* exactly 1 once its increment is done, and by nothing before.
C1_CounterEqualsCalls ==
    (StoreClean /\ ~hist.overlap) =>
        /\ StoreIdle => Counter = Len(hist.stores)
        /\ \A p \in Callers :
              InStore(p) =>
                  Counter = Len(hist.stores)
                            + (IF pc[p] \in {"set", "push_out"} THEN 1 ELSE 0)

C1_Witness ==
    /\ StoreIdle /\ StoreClean /\ ~hist.overlap
    /\ Len(hist.stores) = 2
    /\ Counter = 2
    /\ db[CounterKey].v = <<50>>

---------------------------------------------------------------------------
(* C2 *)

\* C2: after n successful store calls that did not overlap, the input log and
\* the output log hold n entries each, in the order of the calls; entry i of the
\* output log is the key call i returned, entry i of the input log is str(args)
\* of call i, and the server holds the value of call i under that key.
C2_LogsPairCalls ==
    (StoreIdle /\ StoreClean /\ ~hist.overlap) =>
        /\ Len(Inputs) = Len(hist.stores)
        /\ Len(Outputs) = Len(hist.stores)
        /\ \A i \in 1..Len(hist.stores) :
              /\ Inputs[i] = Utf8Encode(StrArgs(hist.stores[i].args))
              /\ Outputs[i] = Utf8Encode(hist.stores[i].key)
              /\ RGet(db, Outputs[i]) =
                    [err |-> FALSE, nil |-> FALSE, v |-> Encode(hist.stores[i].data)]

C2_Witness ==
    /\ StoreIdle /\ StoreClean /\ ~hist.overlap
    /\ Len(hist.stores) = 2
    /\ hist.stores[1].data = PyStr(<<104, 233>>)
    /\ hist.stores[2].data = PyInt(0 - 12)
    /\ Inputs = << <<40, 39, 104, 195, 169, 39, 44, 41>>, <<40, 45, 49, 50, 44, 41>> >>
    /\ Outputs = <<UuidStr(1), UuidStr(2)>>

---------------------------------------------------------------------------
(* C3 *)

GetOps == {"get", "get_str", "get_int"}

\* C3 as stated: for every stored v, get(store(v)) = v, get_str(store(v)) = v
\* for text v and get_int(store(v)) = v for integer v (no Cache is constructed
\* between the store and the read).
C3_RoundTripAsStated ==
    \A i \in 1..Len(hist.stores) :
        LET r == hist.stores[i]
        IN (~hist.torn /\ ret.op \in GetOps /\ ret.arg = r.key) =>
              /\ ret.op = "get" => ret.out = r.data
              /\ (ret.op = "get_str" /\ r.data.ty = "str") => ret.out = r.data
              /\ (ret.op = "get_int" /\ r.data.ty = "int") => ret.out = r.data

\* C3 amended: get(store(v)) is the byte string the server holds for v: v itself
\* when v is bytes, else bytes that are not v but spell it (the UTF-8 encoding of
\* text, the decimal repr of a number); get_str(store(v)) = v for text v and
\* get_int(store(v)) = v for integer v.
C3_RoundTrip ==
    \A i \in 1..Len(hist.stores) :
        LET r == hist.stores[i]
        IN (~hist.torn /\ ret.op \in GetOps /\ ret.arg = r.key) =>
              /\ ret.op = "get" =>
                    /\ ret.out.ty = "bytes"
                    /\ r.data.ty = "bytes" => ret.out = r.data
                    /\ r.data.ty # "bytes" => ret.out # r.data
                    /\ r.data.ty = "str" =>
                          Utf8Decode(ret.out.v) = [ok |-> TRUE, s |-> r.data.v]
                    /\ r.data.ty = "int" =>
                          IntParse(ret.out.v) = [ok |-> TRUE, n |-> r.data.v[1]]
                    /\ r.data.ty = "float" => ret.out.v = FloatRepr(r.data.v[1])
              /\ (ret.op = "get_str" /\ r.data.ty = "str") => ret.out = r.data
              /\ (ret.op = "get_int" /\ r.data.ty = "int") => ret.out = r.data

C3_Witness ==
    \E i \in 1..Len(hist.stores) :
        /\ ~hist.torn
        /\ hist.stores[i].data = PyInt(0 - 12)
        /\ ret.arg = hist.stores[i].key
        /\ ret.op = "get_int"
        /\ ret.out = PyInt(0 - 12)
        /\ GetResult(db, ret.arg, "get") = PyBytes(<<45, 49, 50>>)

---------------------------------------------------------------------------
(* C8 *)

\* C8: get, get_str and get_int of a key the server does not hold return None:
\* nothing is raised and the converter is not applied.
C8_AbsentKeyReadsNone ==
    (ret.op \in GetOps /\ ~ret.found) => ret.out = PyNone

C8_Witness ==
    /\ ret.op = "get_int"
    /\ ret.arg = UuidStr(1)
    /\ ~ret.found
    /\ ret.out = PyNone

---------------------------------------------------------------------------
(* C9 *)

\* every key a store call may have returned reads as absent, the counter of
\* store is absent and reads 0, both logs are empty, nothing else is left
Cleared ==
    /\ \A i \in 1..nuuid : \A fn \in GetOps : GetResult(db, UuidStr(i), fn) = PyNone
    /\ CounterKey \notin DOMAIN db
    /\ Counter = 0
    /\ Inputs = <<>>
    /\ Outputs = <<>>
    /\ DOMAIN db = {}

\* C9: right after a Cache is constructed the whole database is clear.
C9_NewCacheClears == [][NewCache => Cleared']_vars

C9_Witness ==
    /\ ret.op = "Cache"
    /\ ret.found
    /\ nuuid = 2
    /\ Cleared

---------------------------------------------------------------------------
(* C10 *)

\* C10 as stated: within one store call a reader sees the counter increment
\* first, then the value under the new key, then the input-log entry, then the
\* output-log entry.
C10_OrderAsStated ==
    (StoreClean /\ ~hist.overlap) =>
        /\ SeesOutput => SeesInput
        /\ SeesInput => SeesValue
        /\ SeesValue => SeesCount

\* C10 amended: within one store call a reader sees the input-log entry first,
\* then the counter increment, then the value under the new key, then the
\* output-log entry.
C10_Order ==
    (StoreClean /\ ~hist.overlap) =>
        /\ SeesOutput => SeesValue
        /\ SeesValue => SeesCount
        /\ SeesCount => SeesInput

C10_Witness ==
    /\ StoreClean /\ ~hist.overlap
    /\ \E p \in Callers : pc[p] = "incr"
    /\ Len(hist.stores) = 1
    /\ SeesInput /\ ~SeesCount /\ ~SeesValue /\ ~SeesOutput

---------------------------------------------------------------------------
(* What the claims on web.py speak of *)

UrlCounter(u) == CounterValue(db, CountKey(u))

\* the get_page calls that ran alone, one after the other, and are remembered
PageRecords == {hist.pages[i] : i \in 1..Len(hist.pages)}

\* the two latest get_page calls were for the same URL, the first ended as a
\* miss and the second looked the entry up inside the window of that write and
\* the server answered it
TwiceWithinTTL ==
    /\ Len(hist.pages) = 2
    /\ hist.pages[1].url = hist.pages[2].url
    /\ hist.pages[1].why = "miss"
    /\ hist.pages[2].win = "fresh"
    /\ hist.pages[2].why \in {"hit", "miss"}

---------------------------------------------------------------------------
(* C4 *)

\* C4: two get_page calls for one URL, one after the other inside the TTL
\* window, raise the URL's counter by 2, fetch once (the second call is a hit)
\* and return the same content.
C4_TwiceWithinTTL ==
    TwiceWithinTTL =>
        /\ hist.pages[2].n1 = hist.pages[1].n0 + 2
        /\ hist.pages[2].why = "hit"
        /\ hist.pages[2].out = hist.pages[1].out

\* the same, for first calls that fetched a page that is not empty
C4_TwiceWithinTTLNonEmpty ==
    (TwiceWithinTTL /\ hist.pages[1].out # PyStr(<<>>)) =>
        /\ hist.pages[2].n1 = hist.pages[1].n0 + 2
        /\ hist.pages[2].why = "hit"
        /\ hist.pages[2].out = hist.pages[1].out

\* the empty page was fetched and cached, and the next call fetched again
C4_EmptyPageRefetched ==
    /\ TwiceWithinTTL
    /\ hist.pages[1].out = PyStr(<<>>)
    /\ hist.pages[2].why = "miss"
    /\ hist.pages[2].out = PyStr(<<97>>)
    /\ hist.pages[2].n1 = 2

---------------------------------------------------------------------------
(* C5 *)

\* C5: a get_page call raises the counter of its URL by exactly 1 and does so
\* before it does anything else, however it ends; the counter has no expiry,
\* and when the server refused no increment it reads the number of get_page
\* calls made for the URL since the last FLUSHDB.
C5_CounterCountsCalls ==
    /\ \A u \in Urls :
          /\ UrlCounter(u) = hist.pinv[u] - hist.prefused[u]
          /\ CountKey(u) \in DOMAIN db => db[CountKey(u)].ttl = NoExpiry
    /\ \A r \in PageRecords : r.why # "incr" => r.n1 = r.n0 + 1
    /\ \A p \in Callers :
          (InPage(p) /\ obs[p].clean) =>
              IF pc[p] = "count"
              THEN /\ UrlCounter(loc[p].url) = obs[p].n0
                   /\ EntryOf(db, CacheKey(loc[p].url)) = obs[p].e0
              ELSE /\ obs[p].n1 = obs[p].n0 + 1
                   /\ UrlCounter(loc[p].url) = obs[p].n1

C5_Witness ==
    /\ Len(hist.pages) = 2
    /\ hist.pages[1].url = hist.pages[2].url
    /\ hist.pages[1].why = "fetch"
    /\ hist.pages[2].why = "miss"
    /\ hist.pages[2].n1 = 2
    /\ hist.prefused[hist.pages[1].url] = 0
    /\ hist.age[hist.pages[1].url] > TTL
    /\ UrlCounter(hist.pages[1].url) = 2
    /\ CacheKey(hist.pages[1].url) \notin DOMAIN db

---------------------------------------------------------------------------
(* C6 *)

\* C6: the entry written on a miss is there for the TTL seconds after the write
\* and gone from then on; a call that looks it up after that is a miss: it
\* fetches and writes an entry that has the whole TTL again.
C6_ExpiryThenMiss ==
    /\ \A u \in Urls :
          hist.age[u] # NoWrite =>
              /\ CacheKey(u) \in DOMAIN db <=> hist.age[u] < TTL
              /\ CacheKey(u) \in DOMAIN db => db[CacheKey(u)].ttl = TTL - hist.age[u]
    /\ \A r \in PageRecords :
          (r.win = "expired" /\ r.why \in {"hit", "miss"}) => r.why = "miss"
    /\ \A p \in Callers :
          (InPage(p) /\ obs[p].clean /\ obs[p].win = "expired") =>
              pc[p] \in {"fetch", "setex"}

C6_Witness ==
    /\ Len(hist.pages) = 2
    /\ hist.pages[1].url = hist.pages[2].url
    /\ hist.pages[1].why = "miss"
    /\ hist.pages[1].out = PyStr(<<97>>)
    /\ hist.pages[2].win = "expired"
    /\ hist.pages[2].why = "miss"
    /\ hist.pages[2].out = PyStr(<<104, 233>>)
    /\ hist.age[hist.pages[2].url] = 0
    /\ EntryOf(db, CacheKey(hist.pages[2].url)) =
          [has |-> TRUE, v |-> <<104, 195, 169>>, ttl |-> TTL]

---------------------------------------------------------------------------
(* C7 *)

\* C7: a get_page call whose fetch fails raises to its caller; the counter of
\* the URL went up by 1 in that call, and the entry of the URL is what it was
\* when the call began.
C7_FetchFailure ==
    /\ \A r \in PageRecords :
          r.why = "fetch" =>
              /\ r.out = Raised
              /\ r.n1 = r.n0 + 1
              /\ r.kept
    /\ (Len(hist.pages) > 0 /\ hist.pages[Len(hist.pages)].why = "fetch"
          /\ ret.op = "get_page" /\ \A q \in Callers : ~InPage(q)) =>
              /\ ret.out = Raised
              /\ UrlCounter(ret.arg) = hist.pages[Len(hist.pages)].n1

C7_Witness ==
    /\ Len(hist.pages) = 2
    /\ hist.pages[1].url = hist.pages[2].url
    /\ hist.pages[1].why = "miss"
    /\ hist.pages[1].out = PyStr(<<>>)
    /\ hist.pages[2].why = "fetch"
    /\ hist.pages[2].win = "fresh"
    /\ hist.pages[2].kept
    /\ ret.out = Raised
    /\ UrlCounter(ret.arg) = 2
    /\ EntryOf(db, CacheKey(ret.arg)).has

---------------------------------------------------------------------------
(* C11 *)

\* p's replay prints its report in this step, and what it had read of the two
\* logs is what the server holds now (no store step and no FLUSHDB came between
\* its three reads)
ReplayReports(p) ==
    /\ pc[p] = "get_count"
    /\ pc'[p] = "idle"
    /\ ret'.out.ty = "printed"
    /\ loc[p].inputs = Inputs
    /\ loc[p].outputs = Outputs

\* C11: replay reports the value of the counter (0 when the key is absent),
\* then exactly min(len(inputs), len(outputs)) lines, line i made of entry i of
\* the input log and entry i of the output log; with no recorded call it
\* reports 0 and no line. replay leaves the server as it is.
C11_ReplayReport ==
    [][\A p \in Callers :
          /\ InReplay(p) /\ pc'[p] # pc[p] => db' = db
          /\ ReplayReports(p) =>
                LET printed == ret'.out.v
                    n == IF Len(Inputs) < Len(Outputs) THEN Len(Inputs)
                         ELSE Len(Outputs)
                IN /\ printed[1] = ReplayHeader(Counter)
                   /\ CounterKey \notin DOMAIN db => printed[1] = ReplayHeader(0)
                   /\ Len(printed) = 1 + n
                   /\ \A i \in 1..n :
                         printed[i + 1] =
                            QualName \o <<40, 42>> \o Utf8Decode(Inputs[i]).s
                                     \o <<41, 32, 45, 62, 32>>
                                     \o Utf8Decode(Outputs[i]).s
                   /\ (Inputs = <<>> /\ Outputs = <<>> /\ Counter = 0) =>
                         printed = <<ReplayHeader(0)>>]_vars

C11_Witness ==
    /\ ret.op = "replay"
    /\ ret.out.ty = "printed"
    /\ Counter = 2
    /\ Len(Inputs) = 2
    /\ Len(Outputs) = 1
    /\ \A p \in Callers : ~InStore(p)
    /\ ret.out.v =
          << QualName \o <<32, 119, 97, 115, 32, 99, 97, 108, 108, 101, 100, 32,
                           50, 32, 116, 105, 109, 101, 115, 58>>,
             QualName \o <<40, 42, 40, 39, 104, 233, 39, 44, 41, 41, 32, 45, 62, 32,
                           48, 45, 49>> >>

---------------------------------------------------------------------------
(* C12 *)

\* the write of p's store call fails in this step: self._redis.set raises
SetFails(p) == pc[p] = "set" /\ pc'[p] = "idle"

\* C12: when the write inside store raises, the call raises to its caller and
\* appends nothing to the output log, while the counter has gone up for the call
\* and str(args) of the call stays as the last entry of the input log. (The
\* counts are those of a call that ran alone after calls that all returned.)
C12_WriteFailure ==
    [][\A p \in Callers :
          SetFails(p) =>
              /\ ret'.op = "store" /\ ret'.out = Raised
              /\ Outputs' = Outputs
              /\ Inputs' = Inputs
              /\ Counter' = Counter
              /\ StoredKeys' = StoredKeys
              /\ (StoreClean /\ ~hist.overlap) =>
                    /\ Len(Outputs') = Len(hist.stores)
                    /\ Counter' = Len(hist.stores) + 1
                    /\ Len(Inputs') = Len(hist.stores) + 1
                    /\ Inputs'[Len(Inputs')] = Utf8Encode(StrArgs(loc[p].args))]_vars

C12_Witness ==
    /\ ret.op = "store"
    /\ ret.out = Raised
    /\ StoreIdle
    /\ ~hist.overlap /\ ~hist.torn /\ hist.failed
    /\ nuuid = 2
    /\ Cardinality(StoredKeys) = 1
    /\ Counter = 2
    /\ Len(Inputs) = 2
    /\ Len(Outputs) = 1
    /\ Len(hist.stores) = 1

---------------------------------------------------------------------------
(* C13 *)

\* C13: the keys store has returned since the last FLUSHDB are distinct from one
\* another and from the keys of the counter and of the two logs, and each still
\* holds, with no expiry, the value it was stored with, whatever calls came
\* after it and however they overlapped.
C13_NoOverwrite ==
    ~hist.torn =>
        \A i \in 1..Len(hist.stores) :
            LET r == hist.stores[i]
                k == Utf8Encode(r.key)
            IN /\ k \notin {CounterKey, InputKey, OutputKey}
               /\ \A j \in 1..Len(hist.stores) :
                     j # i => hist.stores[j].key # r.key
               /\ k \in DOMAIN db
               /\ db[k] = StringEntry(Encode(r.data), NoExpiry)

C13_Witness ==
    /\ ~hist.torn
    /\ hist.overlap
    /\ Len(hist.stores) = 2
    /\ hist.stores[1].data = PyBytes(<<255>>)
    /\ hist.stores[2].data = PyFloat(3)
    /\ hist.stores[1].key = UuidStr(2)
    /\ db[Utf8Encode(UuidStr(2))].v = <<255>>
    /\ db[Utf8Encode(UuidStr(1))].v = <<49, 46, 53>>

---------------------------------------------------------------------------
(* C14 *)

\* C14 as stated: whenever no store call is in progress, the input log and the
\* output log have the same length.
C14_EqualLengthAsStated ==
    StoreIdle => Len(Inputs) = Len(Outputs)

\* C14 amended: whenever no store call is in progress, the two logs have the
\* same length if no store call has raised since the last FLUSHDB; after calls
\* that raised the output log is the shorter one, with one entry per call that
\* returned. (No FLUSHDB has cut a call.)
C14_EqualLength ==
    (StoreIdle /\ ~hist.torn) =>
        /\ ~hist.failed => Len(Inputs) = Len(Outputs)
        /\ Len(Outputs) <= Len(Inputs)
        /\ Len(Outputs) = Len(hist.stores)

C14_Witness ==
    /\ StoreIdle /\ StoreClean
    /\ hist.overlap
    /\ Len(Inputs) = 2
    /\ Len(Outputs) = 2
    /\ Outputs[1] = UuidStr(2)

---------------------------------------------------------------------------
(* C15 *)

\* C15: when the store calls made since the last FLUSHDB have all returned,
\* however their steps on the server were interleaved, no update is lost: the
\* counter reads the number of calls, and each log holds as many entries.
C15_NoLostUpdate ==
    (StoreIdle /\ StoreClean) =>
        /\ Counter = Len(hist.stores)
        /\ Len(Inputs) = Len(hist.stores)
        /\ Len(Outputs) = Len(hist.stores)
        /\ \A i \in 1..Len(hist.stores) :
              /\ \E j \in 1..Len(Inputs) :
                    Inputs[j] = Utf8Encode(StrArgs(hist.stores[i].args))
              /\ \E j \in 1..Len(Outputs) :
                    Outputs[j] = Utf8Encode(hist.stores[i].key)

\* two calls overlapped and both returned; the first entry of the input log is
\* of one call and the first entry of the output log is of the other
C15_Witness ==
    /\ StoreIdle /\ StoreClean
    /\ hist.overlap
    /\ Len(hist.stores) = 2
    /\ Counter = 2
    /\ hist.stores[1].args # hist.stores[2].args
    /\ Inputs[1] = Utf8Encode(StrArgs(hist.stores[2].args))
    /\ Outputs[1] = Utf8Encode(hist.stores[1].key)

---------------------------------------------------------------------------
(* C16 *)

\* C16 as stated: of two get_page calls for one URL that overlap while the
\* server holds no entry for the URL, only one invokes the fetch.
C16_DedupAsStated ==
    \A p, q \in Callers :
        (p # q /\ pc[p] = "setex" /\ pc[q] = "setex"
              /\ hist.age[loc[p].url] = NoWrite)
           => loc[p].url # loc[q].url

\* C16 amended: whether a get_page call fetches is decided by the server's
\* answer to its own lookup alone: it fetches exactly when the answer is no
\* entry or the empty entry, whatever other calls for the URL are in progress;
\* so each of two overlapping calls on an uncached URL invokes the fetch.
C16_EachMissFetches ==
    [][\A p \in Callers :
          (pc[p] = "lookup" /\ pc'[p] # "lookup") =>
              LET r == RGet(db, CacheKey(loc[p].url))
              IN /\ pc'[p] = "fetch" => (r.nil \/ r.v = <<>>)
                 /\ (r.nil \/ r.v = <<>>) =>
                       (pc'[p] = "fetch" \/ (ret'.p = p /\ ret'.out = Raised))
                 /\ pc'[p] \in {"fetch", "idle"}
                 /\ db' = db]_vars

\* both calls have fetched the URL, which has not been written yet
C16_Witness ==
    /\ pc["c1"] = "setex" /\ pc["c2"] = "setex"
    /\ loc["c1"].url = loc["c2"].url
    /\ loc["c1"].result = <<97>> /\ loc["c2"].result = <<104, 233>>
    /\ hist.age[loc["c1"].url] = NoWrite
    /\ CacheKey(loc["c1"].url) \notin DOMAIN db
    /\ UrlCounter(loc["c1"].url) = 2

---------------------------------------------------------------------------
(* C17 *)

\* the latest get_page call ran alone, looked the entry up while it was there
\* (written less than TTL seconds before) and was answered by the server
LastLookedUpFresh ==
    /\ Len(hist.pages) > 0
    /\ hist.pages[Len(hist.pages)].win = "fresh"
    /\ hist.pages[Len(hist.pages)].why \in {"hit", "miss"}

\* C17: a get_page call that looks the entry up while it is present and not
\* expired does not fetch and does not rewrite the entry, and returns the
\* content of the entry, whatever the content is, the empty string included.
C17_PresentEntryIsHit ==
    /\ \A p \in Callers :
          (InPage(p) /\ obs[p].win = "fresh") => pc[p] \notin {"fetch", "setex"}
    /\ LastLookedUpFresh =>
          /\ hist.pages[Len(hist.pages)].why = "hit"
          /\ hist.pages[Len(hist.pages)].kept

\* the same, for entries that are not empty
C17_NonEmptyEntryIsHit ==
    /\ \A p \in Callers :
          (InPage(p) /\ obs[p].clean /\ obs[p].win = "fresh"
                /\ obs[p].e0.has /\ obs[p].e0.v # <<>>)
             => pc[p] \notin {"fetch", "setex"}
    /\ (LastLookedUpFresh /\ hist.pages[Len(hist.pages)].why = "hit") =>
          /\ hist.pages[Len(hist.pages)].kept
          /\ hist.pages[Len(hist.pages)].out # PyStr(<<>>)

\* the empty entry is there, with seconds left, and the call that has just
\* looked it up is about to fetch
C17_EmptyEntryFetched ==
    \E p \in Callers :
        /\ pc[p] = "fetch"
        /\ obs[p].clean
        /\ obs[p].win = "fresh"
        /\ EntryOf(db, CacheKey(loc[p].url)) = [has |-> TRUE, v |-> <<>>, ttl |-> 7]

---------------------------------------------------------------------------
(* C18 *)

\* the increment of p's store call fails in this step: self._redis.incr raises
IncrFails(p) == pc[p] = "incr" /\ pc'[p] = "idle"

\* C18: when the increment raises, the call raises to its caller and store does
\* not run: no key is drawn, nothing is written, nothing is appended to the
\* output log. So the server never holds more keys of store than the counter
\* reads. (The counts are those of a call that ran alone after calls that all
\* returned.)
C18_IncrFailure ==
    [][/\ \A p \in Callers :
             IncrFails(p) =>
                 /\ ret'.op = "store" /\ ret'.out = Raised
                 /\ db' = db
                 /\ nuuid' = nuuid
                 /\ (StoreClean /\ ~hist.overlap) =>
                       /\ Cardinality(StoredKeys') = Len(hist.stores)
                       /\ Len(Outputs') = Len(hist.stores)
                       /\ Counter' = Len(hist.stores)
       /\ ~hist'.torn => Cardinality(StoredKeys') <= Counter']_vars

C18_Witness ==
    /\ ret.op = "store"
    /\ ret.out = Raised
    /\ StoreIdle
    /\ ~hist.overlap /\ ~hist.torn /\ hist.failed
    /\ nuuid = 1
    /\ Cardinality(StoredKeys) = 1
    /\ Counter = 1
    /\ Len(Inputs) = 2
    /\ Len(Outputs) = 1
    /\ hist.nstore = 2

---------------------------------------------------------------------------
(* C19 *)

\* C19: in every state in which no FLUSHDB has cut a store call, in the middle
\* of calls, after calls that raised and under overlapping calls alike,
\* len(output log) <= counter <= len(input log).
C19_LogsBracketCounter ==
    ~hist.torn =>
        /\ Len(Outputs) <= Counter
        /\ Counter <= Len(Inputs)

\* one call raised at its increment and another is in the middle: the three
\* numbers are all different
C19_Witness ==
    /\ ~hist.torn
    /\ hist.failed
    /\ hist.overlap
    /\ \E p \in Callers : pc[p] = "push_out"
    /\ Len(Outputs) = 0
    /\ Counter = 1
    /\ Len(Inputs) = 2

---------------------------------------------------------------------------
(* C20 *)

\* C20: a get_page call that ends as a hit leaves the entry as it was, its
\* expiry included, and its lookup fell less than TTL seconds after the write
\* of the entry; so what a hit returns was fetched less than TTL seconds
\* before, and after a miss it is what that miss fetched.
C20_HitKeepsExpiry ==
    /\ \A r \in PageRecords :
          r.why = "hit" => (r.kept /\ r.win = "fresh")
    /\ \A u \in Urls :
          CacheKey(u) \in DOMAIN db =>
              /\ hist.age[u] # NoWrite
              /\ hist.age[u] < TTL
              /\ db[CacheKey(u)].ttl = TTL - hist.age[u]
    /\ (Len(hist.pages) = 2 /\ hist.pages[1].url = hist.pages[2].url
          /\ hist.pages[1].why \in {"hit", "miss"} /\ hist.pages[2].why = "hit")
         => hist.pages[2].out = hist.pages[1].out

\* two hits in a row, seconds apart, and the entry has one second left
C20_Witness ==
    /\ Len(hist.pages) = 2
    /\ hist.pages[1].url = hist.pages[2].url
    /\ hist.pages[1].why = "hit"
    /\ hist.pages[2].why = "hit"
    /\ hist.pages[2].out = PyStr(<<104, 233>>)
    /\ hist.age[hist.pages[2].url] = TTL - 1
    /\ EntryOf(db, CacheKey(hist.pages[2].url)) =
          [has |-> TRUE, v |-> <<104, 195, 169>>, ttl |-> 1]

====
